---- MODULE Spec2Model ----
(***************************************************************************)
(* Client-side orchestration of the Environmental Analysis Dashboard:      *)
(* app.js (listed in src/README.md from line 140) and                      *)
(* static/apis_statistics.js.                                              *)
(*                                                                         *)
(* The browser runs one handler at a time.  An async function runs up to   *)
(* its next await, and the code after the await runs as a later step, when *)
(* the awaited response arrives.  Each action below is one such step.      *)
(***************************************************************************)
EXTENDS Integers, Sequences, FiniteSets, Bags, TLC

(* ---------------------------------------------------------------------- *)
(* Bounds of the model                                                     *)
(* ---------------------------------------------------------------------- *)
\* how many of the seven layers the user operates (the first ones of validLayers)
NumUserLayers == 2
\* async calls (setupROI, analyzeLayer) that may be suspended at the same time
MaxCalls == 2
\* tile overlay objects created per layer
MaxOverlays == 2
\* characters of the value of the resolution select
MaxDigits == 2
\* parts of a tile URL
MaxUrlParts == 2
\* fields of a statistics record that are not as the formatter expects them
MaxOddFields == 1
\* largest wetland area of a change-over-time record, in hectares
MaxArea == 3
\* user events of a run: shapes drawn, edited or deleted, toggle clicks,
\* changes of a date or of the resolution
MaxUserEvents == 4
\* user events of a run in which every request is answered
MaxLiveEvents == 3

(* ---------------------------------------------------------------------- *)
(* Layers                                                                  *)
(* ---------------------------------------------------------------------- *)
\* the enumeration order used by every loop over the layers
validLayers == <<"forest", "wetland", "tundra", "grassland", "algal_blooms", "soil", "chlorophyll">>

Layers == {validLayers[i] : i \in 1..Len(validLayers)}

UserLayers == {validLayers[i] : i \in 1..NumUserLayers}

\* the value of currentPolygon when it is null
NoShape == 0

\* shape objects the draw control hands over
Shapes == {1, 2}

\* the shape object of a CREATED event: one that is not in the group
NewShape(group) ==
    CHOOSE x \in Shapes : x \notin group /\ \A y \in Shapes : y < x => y \in group

\* a clearLayers that leaves the shapes in the group
clearLayers_KeepsShapes(group) == group

\* drawnItems.clearLayers()
clearLayers(group) == {}

\* the value of analysisLayers[l] when it is undefined
NoOverlay == 0

(* ---------------------------------------------------------------------- *)
(* State                                                                   *)
(* ---------------------------------------------------------------------- *)
VARIABLES
    drawnItems,          \* shapes in the drawn-shapes feature group
    currentPolygon,      \* the ROI slot: a shape or NoShape
    coordinatesDisplay,  \* "placeholder" or "coordinates"
    roiSetup,            \* ROI marked established
    layersAnalyzed,      \* [Layers -> BOOLEAN]
    analysisLayers,      \* [Layers -> overlay number], NoOverlay when none is cached
    mapLayers,           \* overlays attached to the map: set of <<layer, overlay number>>
    legendData,          \* [Layers -> "undefined" | "withKey" | "noKey"]
    mapLegend,           \* "hidden" or the layer whose legend the panel shows
    currentActiveLayer,  \* layer
    checked,             \* [Layers -> BOOLEAN] toggle.checked
    disabled,            \* [Layers -> BOOLEAN] toggle.disabled
    layerStatus,         \* [Layers -> status text of the layer item]
    itemActive,          \* [Layers -> BOOLEAN] class 'active' of the layer item
    itemAnalyzing,       \* [Layers -> BOOLEAN] class 'analyzing' of the layer item
    statsActive,         \* [Layers -> BOOLEAN] class 'active' of the statistics panel
    status,              \* the status container: [type, detail]
    calls,               \* bag of suspended async calls
    timers,              \* layers of the pending re-analysis timers, in firing order
    userEvents,          \* number of user events handled so far
    lastEvent,           \* the step taken last (history)
    emitted,             \* the requests issued by the step taken last (history)
    lastOutcome,         \* the outcome of the POST response the last step handled (history)
    raced,               \* layers whose analyze-layer response handled last left
                         \* another analyze-layer request of the layer in flight (history)
    probe                \* the input and the result of a function run on its own

vars == <<drawnItems, currentPolygon, coordinatesDisplay, roiSetup, layersAnalyzed,
          analysisLayers, mapLayers, legendData, mapLegend, currentActiveLayer,
          checked, disabled, layerStatus, itemActive, itemAnalyzing, statsActive,
          status, calls, timers, userEvents, lastEvent, emitted, lastOutcome, raced,
          probe>>

\* the state of the page, without the function run on its own
pageVars == <<drawnItems, currentPolygon, coordinatesDisplay, roiSetup, layersAnalyzed,
              analysisLayers, mapLayers, legendData, mapLegend, currentActiveLayer,
              checked, disabled, layerStatus, itemActive, itemAnalyzing, statsActive,
              status, calls, timers, userEvents, lastEvent, emitted, lastOutcome, raced>>

\* no function is run on its own
Idle == [fn |-> "none"]

\* the globals and the DOM as one record, for the synchronous helpers
Cur ==
    [roiSetup |-> roiSetup, layersAnalyzed |-> layersAnalyzed,
     analysisLayers |-> analysisLayers, mapLayers |-> mapLayers,
     legendData |-> legendData, mapLegend |-> mapLegend,
     currentActiveLayer |-> currentActiveLayer, checked |-> checked,
     disabled |-> disabled, layerStatus |-> layerStatus, itemActive |-> itemActive,
     itemAnalyzing |-> itemAnalyzing, statsActive |-> statsActive, status |-> status,
     emitted |-> <<>>]

Commit(s) ==
    /\ roiSetup' = s.roiSetup
    /\ layersAnalyzed' = s.layersAnalyzed
    /\ analysisLayers' = s.analysisLayers
    /\ mapLayers' = s.mapLayers
    /\ legendData' = s.legendData
    /\ mapLegend' = s.mapLegend
    /\ currentActiveLayer' = s.currentActiveLayer
    /\ checked' = s.checked
    /\ disabled' = s.disabled
    /\ layerStatus' = s.layerStatus
    /\ itemActive' = s.itemActive
    /\ itemAnalyzing' = s.itemAnalyzing
    /\ statsActive' = s.statsActive
    /\ status' = s.status
    /\ emitted' = s.emitted

AllFalse == [l \in Layers |-> FALSE]

Request(kind, l) == [req |-> kind, layer |-> l]

(* ---------------------------------------------------------------------- *)
(* Synchronous helpers of app.js                                           *)
(* ---------------------------------------------------------------------- *)
\* the status container holds the kind of the message and, of its text, the
\* part that comes from a response (msg names the fixed part)
showStatus(s, type, msg, detail) ==
    [s EXCEPT !.status = [type |-> type, detail |-> detail]]

clearStatus(s) ==
    [s EXCEPT !.status = [type |-> "", detail |-> ""]]

updateLayerStatus(s, l, text) ==
    [s EXCEPT !.layerStatus[l] = text]

\* a loadStatistics that fetches a layer's statistics once and then serves them again
loadStatistics_Cached(s, l) ==
    IF s.layersAnalyzed[l] /\ \A i \in 1..Len(s.emitted) : s.emitted[i] # Request("statistics", l)
    THEN [s EXCEPT !.emitted = Append(@, Request("statistics", l))]
    ELSE s

\* StatisticsManager.loadStatistics up to its fetch: a request when the layer is analyzed
loadStatistics(s, l) ==
    IF s.layersAnalyzed[l]
    THEN [s EXCEPT !.emitted = Append(@, Request("statistics", l))]
    ELSE s

\* a setActiveLayer that leaves the other panels as they are
setActiveLayer_KeepsPanels(s, l) ==
    LET s2 == IF s.layersAnalyzed[l]
              THEN loadStatistics([s EXCEPT !.statsActive[l] = TRUE], l)
              ELSE s
    IN  [s2 EXCEPT !.currentActiveLayer = l]

setActiveLayer(s, l) ==
    LET s1 == [s EXCEPT !.statsActive = AllFalse]
        s2 == IF s1.layersAnalyzed[l]
              THEN loadStatistics([s1 EXCEPT !.statsActive[l] = TRUE], l)
              ELSE s1
    IN  [s2 EXCEPT !.currentActiveLayer = l]

\* resetLayerStates without `toggle.checked = false`
resetLayerStates_KeepsChecked(s) ==
    LET s1 == [s EXCEPT !.layersAnalyzed = AllFalse,
                        !.disabled = [l \in Layers |-> TRUE],
                        !.layerStatus = [l \in Layers |-> "Draw ROI to enable"],
                        !.itemActive = AllFalse,
                        !.itemAnalyzing = AllFalse]
    IN  [s1 EXCEPT !.layerStatus["forest"] = "Ready (Default)",
                   !.itemActive["forest"] = TRUE]

resetLayerStates(s) ==
    LET s1 == [s EXCEPT !.layersAnalyzed = AllFalse,
                        !.disabled = [l \in Layers |-> TRUE],
                        !.checked = AllFalse,
                        !.layerStatus = [l \in Layers |-> "Draw ROI to enable"],
                        !.itemActive = AllFalse,
                        !.itemAnalyzing = AllFalse]
    IN  [s1 EXCEPT !.layerStatus["forest"] = "Ready (Default)",
                   !.itemActive["forest"] = TRUE]

enableAllLayerToggles(s) ==
    [s EXCEPT !.disabled = AllFalse,
              !.checked = [l \in Layers |-> l = "forest"],
              !.layerStatus = [l \in Layers |->
                                 IF l = "forest" THEN "Analyzed"
                                 ELSE "Click toggle to analyze"]]

\* the scan for the last visible layer without the test of toggle.checked
lastVisibleLayer_IgnoresChecked(s) ==
    LET vis == {i \in 1..Len(validLayers) : s.layersAnalyzed[validLayers[i]]}
    IN  IF vis = {} THEN "none"
        ELSE validLayers[CHOOSE i \in vis : \A j \in vis : j <= i]

\* the last layer, in enumeration order, whose toggle is checked and that is analyzed
lastVisibleLayer(s) ==
    LET vis == {i \in 1..Len(validLayers) :
                   s.checked[validLayers[i]] /\ s.layersAnalyzed[validLayers[i]]}
    IN  IF vis = {} THEN "none"
        ELSE validLayers[CHOOSE i \in vis : \A j \in vis : j <= i]

\* an updateLayerVisibility that takes nothing off the map
removedOverlay_None(s, l) == {}

\* the overlay object an updateLayerVisibility(l, ...) takes off the map first
removedOverlay(s, l) ==
    IF s.analysisLayers[l] # NoOverlay THEN {<<l, s.analysisLayers[l]>>} ELSE {}

updateLayerVisibility(s, l, isVisible) ==
    LET s1 == [s EXCEPT !.mapLayers = @ \ removedOverlay(s, l),
                        !.itemActive[l] = FALSE]
        s2 == IF isVisible /\ s1.analysisLayers[l] # NoOverlay /\ s1.layersAnalyzed[l]
              THEN LET a == [s1 EXCEPT !.mapLayers = @ \cup {<<l, s1.analysisLayers[l]>>},
                                       !.itemActive[l] = TRUE]
                       b == IF a.legendData[l] = "withKey"
                            THEN [a EXCEPT !.mapLegend = l]
                            ELSE a
                   IN  setActiveLayer(b, l)
              ELSE LET last == lastVisibleLayer(s1)
                   IN  IF last # "none"
                       THEN LET a == CASE s1.legendData[last] = "withKey" ->
                                            [s1 EXCEPT !.mapLegend = last]
                                       [] s1.legendData[last] = "noKey" ->
                                            [s1 EXCEPT !.mapLegend = "hidden"]
                                       [] OTHER -> s1
                                b == [a EXCEPT !.itemActive[last] = TRUE]
                            IN  setActiveLayer(b, last)
                       ELSE [s1 EXCEPT !.mapLegend = "hidden",
                                       !.statsActive = AllFalse]
    IN  IF s2.layersAnalyzed["forest"]
        THEN [s2 EXCEPT !.disabled["forest"] = FALSE]
        ELSE s2

clearAllLayers(s) ==
    LET cached == {<<l, s.analysisLayers[l]>> : l \in {k \in Layers : s.analysisLayers[k] # NoOverlay}}
    IN  clearStatus([s EXCEPT !.mapLayers = @ \ cached,
                              !.mapLegend = "hidden",
                              !.statsActive = AllFalse])

(* ---------------------------------------------------------------------- *)
(* Suspended async calls                                                   *)
(* ---------------------------------------------------------------------- *)
\* a call waiting for its POST response; stale (history): a setupROI has
\* succeeded since the call sent its request; old (history): the overlay that
\* was cached for the layer when the call began to load the layer's data
FetchCall(kind, l, re) ==
    [kind |-> kind, layer |-> l, re |-> re, stage |-> "fetch",
     mapDone |-> FALSE, legendDone |-> FALSE, stale |-> FALSE, old |-> NoOverlay]

\* the same call waiting in loadLayerData for the map-url and legend responses
LoadCall(c) == [c EXCEPT !.stage = "load", !.old = analysisLayers[c.layer]]

InFlight == BagToSet(calls)

AddCall(c) == calls (+) SetToBag({c})

RemoveCall(c) == calls (-) SetToBag({c})

ReplaceCall(c, d) == (calls (-) SetToBag({c})) (+) SetToBag({d})

HasRoom == BagCardinality(calls) < MaxCalls

\* an analyzeLayer call that awaits its POST response
AwaitsAnalysis(d) == d.kind = "analyze" /\ d.stage = "fetch"

\* the calls b, those of analyzeLayer that await their response marked stale
MarkStale(b) ==
    LET Img(d) == IF AwaitsAnalysis(d) THEN [d EXCEPT !.stale = TRUE] ELSE d
    IN  [e \in {Img(d) : d \in BagToSet(b)} |->
            IF AwaitsAnalysis(e)
            THEN CopiesIn([e EXCEPT !.stale = FALSE], b) + CopiesIn(e, b)
            ELSE CopiesIn(e, b)]

\* besides call c, another analyzeLayer call of the same layer awaits its POST response
OtherRequestInFlight(c) ==
    \E d \in InFlight :
        /\ d.kind = "analyze" /\ d.layer = c.layer /\ d.stage = "fetch"
        /\ (d # c \/ CopiesIn(c, calls) > 1)

\* a tile overlay object that did not exist before
FreshOverlay(s, l) ==
    CHOOSE n \in 1..(MaxOverlays + 1) :
        /\ n # s.analysisLayers[l]
        /\ <<l, n>> \notin s.mapLayers
        /\ \A m \in 1..(n - 1) : m = s.analysisLayers[l] \/ <<l, m>> \in s.mapLayers

\* outcomes of a POST request (setup-roi, analyze-layer)
PostFailures ==
    {"app_detail", "app_nodetail", "http_detail", "http_nodetail", "http_unparseable", "exception"}

PostOutcomes == {"success"} \cup PostFailures

\* every failure reported with the generic text
FailureDetail_Generic(outcome) == "Unknown error"

\* the detail a failure puts in the status message
FailureDetail(outcome) ==
    CASE outcome = "app_detail" -> "result.detail"
      [] outcome = "app_nodetail" -> "Unknown error"
      [] outcome = "http_detail" -> "errorData.detail"
      [] outcome = "http_nodetail" -> "HTTP status"
      [] outcome = "http_unparseable" -> "Unknown error"
      [] outcome = "exception" -> "error.message"

\* a failure that reaches the catch block (thrown), not the else branch
IsThrown(outcome) == outcome \in {"http_detail", "http_nodetail", "http_unparseable", "exception"}

(* ---------------------------------------------------------------------- *)
(* setupROI                                                                *)
(* ---------------------------------------------------------------------- *)
\* setupROI up to its fetch; the caller has checked that currentPolygon is set
setupROIStart(s) ==
    LET s1 == showStatus(s, "loading", "Setting up ROI and analyzing forest layer...", "")
    IN  [s1 EXCEPT !.emitted = Append(@, Request("setup-roi", "forest"))]

\* setupROI's success branch marking forest analyzed without resetting the others
setupROISuccess_KeepsAnalyzed(s) ==
    LET s1 == [s EXCEPT !.roiSetup = TRUE, !.layersAnalyzed["forest"] = TRUE]
        s2 == showStatus(s1, "success", "ROI setup complete! Forest analysis ready.", "area_km2")
        s3 == enableAllLayerToggles(s2)
    IN  [s3 EXCEPT !.emitted = @ \o <<Request("map-url", "forest"), Request("legends", "forest")>>]

\* the success branch up to the await of loadLayerData('forest')
setupROISuccess(s) ==
    LET s1 == [s EXCEPT !.roiSetup = TRUE,
                        !.layersAnalyzed = [l \in Layers |-> l = "forest"]]
        s2 == showStatus(s1, "success", "ROI setup complete! Forest analysis ready.", "area_km2")
        s3 == enableAllLayerToggles(s2)
    IN  [s3 EXCEPT !.emitted = @ \o <<Request("map-url", "forest"), Request("legends", "forest")>>]

\* setupROI's failure paths without the call of resetLayerStates
setupROIFailure_NoReset(s, outcome) ==
    LET s1 == showStatus(s, "error",
                         IF IsThrown(outcome) THEN "Error" ELSE "ROI setup failed",
                         FailureDetail(outcome))
    IN  [s1 EXCEPT !.roiSetup = FALSE]

\* the else branch and the catch block
setupROIFailure(s, outcome) ==
    LET s1 == showStatus(s, "error",
                         IF IsThrown(outcome) THEN "Error" ELSE "ROI setup failed",
                         FailureDetail(outcome))
    IN  resetLayerStates([s1 EXCEPT !.roiSetup = FALSE])

\* setupROI's completion without the call of updateLayerVisibility
setupROIFinish_NoVisibility(s) ==
    LET s2 == updateLayerStatus(s, "forest", "Analyzed")
    IN  [s2 EXCEPT !.checked["forest"] = TRUE, !.disabled["forest"] = FALSE]

\* after the await of loadLayerData('forest')
setupROIFinish(s) ==
    LET s1 == updateLayerVisibility(s, "forest", TRUE)
        s2 == updateLayerStatus(s1, "forest", "Analyzed")
    IN  [s2 EXCEPT !.checked["forest"] = TRUE, !.disabled["forest"] = FALSE]

(* ---------------------------------------------------------------------- *)
(* analyzeLayer                                                            *)
(* ---------------------------------------------------------------------- *)
\* whether analyzeLayer(l, re) gets as far as its fetch
analyzeLayerIssues(s, l, re) ==
    s.roiSetup /\ ~(s.layersAnalyzed[l] /\ ~re)

\* analyzeLayer without the early return for a missing ROI
analyzeLayerStart_NoRoiCheck(s, l, re) ==
    IF s.layersAnalyzed[l] /\ ~re
    THEN IF s.checked[l] THEN updateLayerVisibility(s, l, TRUE) ELSE s
    ELSE LET s1 == updateLayerStatus(s, l, IF re THEN "Re-analyzing..." ELSE "Analyzing...")
             s2 == [s1 EXCEPT !.itemAnalyzing[l] = TRUE]
             s3 == showStatus(s2, "loading",
                              IF re THEN "Re-analyzing layer..." ELSE "Analyzing layer...", "")
         IN  [s3 EXCEPT !.emitted = Append(@, Request("analyze-layer", l))]

\* analyzeLayer up to its fetch, or to its early return
analyzeLayerStart(s, l, re) ==
    IF ~s.roiSetup
    THEN showStatus(s, "error", "Please draw a ROI first!", "")
    ELSE IF s.layersAnalyzed[l] /\ ~re
    THEN IF s.checked[l] THEN updateLayerVisibility(s, l, TRUE) ELSE s
    ELSE LET s1 == updateLayerStatus(s, l, IF re THEN "Re-analyzing..." ELSE "Analyzing...")
             s2 == [s1 EXCEPT !.itemAnalyzing[l] = TRUE]
             s3 == showStatus(s2, "loading",
                              IF re THEN "Re-analyzing layer..." ELSE "Analyzing layer...", "")
         IN  [s3 EXCEPT !.emitted = Append(@, Request("analyze-layer", l))]

\* the success branch up to the await of loadLayerData(l)
analyzeLayerSuccess(s, l, re) ==
    LET s1 == [s EXCEPT !.layersAnalyzed[l] = TRUE]
        s2 == showStatus(s1, "success",
                         IF re THEN "re-analysis completed!" ELSE "analysis completed!", "")
    IN  [s2 EXCEPT !.emitted = @ \o <<Request("map-url", l), Request("legends", l)>>]

\* analyzeLayer's failure paths unchecking the toggle of a forced call too
analyzeLayerFailure_AlwaysUnchecks(s, l, re, outcome) ==
    LET s1 == showStatus(s, "error",
                         IF IsThrown(outcome) THEN "Error analyzing layer" ELSE "analysis failed",
                         FailureDetail(outcome))
        s2 == updateLayerStatus(s1, l,
                         IF IsThrown(outcome) THEN "Error - Click toggle to retry"
                         ELSE "Failed - Click toggle to retry")
    IN  [s2 EXCEPT !.itemAnalyzing[l] = FALSE, !.checked[l] = FALSE]

\* failure paths that clear the analyzed flag of the layer
analyzeLayerFailure_ClearsAnalyzed(s, l, re, outcome) ==
    LET s1 == showStatus(s, "error",
                         IF IsThrown(outcome) THEN "Error analyzing layer" ELSE "analysis failed",
                         FailureDetail(outcome))
        s2 == updateLayerStatus(s1, l,
                         IF IsThrown(outcome) THEN "Error - Click toggle to retry"
                         ELSE "Failed - Click toggle to retry")
        s3 == [s2 EXCEPT !.itemAnalyzing[l] = FALSE, !.layersAnalyzed[l] = FALSE]
    IN  IF ~re THEN [s3 EXCEPT !.checked[l] = FALSE] ELSE s3

\* failure paths that leave the layer item marked 'analyzing'
analyzeLayerFailure_KeepsAnalyzing(s, l, re, outcome) ==
    LET s1 == showStatus(s, "error",
                         IF IsThrown(outcome) THEN "Error analyzing layer" ELSE "analysis failed",
                         FailureDetail(outcome))
        s2 == updateLayerStatus(s1, l,
                         IF IsThrown(outcome) THEN "Error - Click toggle to retry"
                         ELSE "Failed - Click toggle to retry")
    IN  IF ~re THEN [s2 EXCEPT !.checked[l] = FALSE] ELSE s2

\* the else branch (application-level failure) and the catch block
analyzeLayerFailure(s, l, re, outcome) ==
    LET s1 == showStatus(s, "error",
                         IF IsThrown(outcome) THEN "Error analyzing layer" ELSE "analysis failed",
                         FailureDetail(outcome))
        s2 == updateLayerStatus(s1, l,
                         IF IsThrown(outcome) THEN "Error - Click toggle to retry"
                         ELSE "Failed - Click toggle to retry")
        s3 == [s2 EXCEPT !.itemAnalyzing[l] = FALSE]
    IN  IF ~re THEN [s3 EXCEPT !.checked[l] = FALSE] ELSE s3

\* analyzeLayer's completion showing the layer without looking at its toggle
analyzeLayerFinish_NoToggleCheck(s, l) ==
    LET s1 == updateLayerStatus(s, l, "Analyzed")
        s2 == [s1 EXCEPT !.itemAnalyzing[l] = FALSE, !.itemActive[l] = TRUE]
    IN  setActiveLayer(updateLayerVisibility(s2, l, TRUE), l)

\* after the await of loadLayerData(l)
analyzeLayerFinish(s, l) ==
    LET s1 == updateLayerStatus(s, l, "Analyzed")
        s2 == [s1 EXCEPT !.itemAnalyzing[l] = FALSE, !.itemActive[l] = TRUE]
    IN  IF s2.checked[l]
        THEN setActiveLayer(updateLayerVisibility(s2, l, TRUE), l)
        ELSE s2

(* ---------------------------------------------------------------------- *)
(* loadLayerData                                                           *)
(* ---------------------------------------------------------------------- *)
MapUrlOutcomes == {"valid", "invalid"}

\* a legend with the entry updateLayerVisibility looks up, or no legend
LegendOutcomes == {"withKey", "failed"}

\* the map-url promise settles: a trusted tile URL makes a new overlay object
loadMapLayer(s, l, outcome) ==
    IF outcome = "valid"
    THEN [s EXCEPT !.analysisLayers[l] = FreshOverlay(s, l)]
    ELSE s

\* the legend promise settles
loadLegend(s, l, outcome) ==
    IF outcome = "failed" THEN s ELSE [s EXCEPT !.legendData[l] = outcome]

\* the code after `await loadLayerData(...)` of the suspended call
finishCall(s, c) ==
    IF c.kind = "setup" THEN setupROIFinish(s) ELSE analyzeLayerFinish(s, c.layer)

(* ---------------------------------------------------------------------- *)
(* Parameter changes                                                       *)
(* ---------------------------------------------------------------------- *)
\* the list of a parameter change without the test of toggle.checked
layersToReanalyze_AllAnalyzed(s) ==
    SelectSeq(validLayers, LAMBDA l : s.layersAnalyzed[l])

\* the layers a parameter change re-analyzes, in enumeration order
layersToReanalyze(s) ==
    SelectSeq(validLayers, LAMBDA l : s.layersAnalyzed[l] /\ s.checked[l])

\* handleDateChange and handleResolutionChange up to their setTimeout calls
handleParameterChange(s, what) ==
    IF ~s.roiSetup \/ layersToReanalyze(s) = <<>>
    THEN s
    ELSE LET todo == layersToReanalyze(s)
             s1 == showStatus(s, "loading",
                              IF what = "date" THEN "Date range changed. Re-analyzing active layers..."
                              ELSE "Resolution changed. Re-analyzing active layers...", "")
         IN  [s1 EXCEPT !.layerStatus = [l \in Layers |->
                  IF \E i \in 1..Len(todo) : todo[i] = l
                  THEN (IF what = "date" THEN "Re-analyzing with new dates..."
                        ELSE "Re-analyzing with new resolution...")
                  ELSE @[l]]]

\* the timers the change sets
scheduledTimers(s) ==
    IF ~s.roiSetup \/ layersToReanalyze(s) = <<>>
    THEN <<>>
    ELSE layersToReanalyze(s)

(* ---------------------------------------------------------------------- *)
(* Initial state: the page after initializeApp                             *)
(* ---------------------------------------------------------------------- *)
Blank ==
    [roiSetup |-> FALSE, layersAnalyzed |-> AllFalse,
     analysisLayers |-> [l \in Layers |-> NoOverlay], mapLayers |-> {},
     legendData |-> [l \in Layers |-> "undefined"], mapLegend |-> "hidden",
     currentActiveLayer |-> "forest", checked |-> AllFalse,
     disabled |-> AllFalse, layerStatus |-> [l \in Layers |-> ""],
     itemActive |-> AllFalse, itemAnalyzing |-> AllFalse, statsActive |-> AllFalse,
     status |-> [type |-> "", detail |-> ""],
     emitted |-> <<>>]

Event(op, l) == [op |-> op, layer |-> l]

\* the user acts: one more user event
CanAct == userEvents < MaxUserEvents

PageLoaded ==
    /\ drawnItems = {}
    /\ currentPolygon = NoShape
    /\ coordinatesDisplay = "placeholder"
    /\ calls = EmptyBag
    /\ timers = <<>>
    /\ userEvents = 0
    /\ lastEvent = Event("init", "none")
    /\ lastOutcome = "none"
    /\ raced = {}
    /\ LET s == showStatus(resetLayerStates(Blank), "success",
                           "Environmental Analysis Dashboard loaded.", "")
       IN  /\ roiSetup = s.roiSetup
           /\ layersAnalyzed = s.layersAnalyzed
           /\ analysisLayers = s.analysisLayers
           /\ mapLayers = s.mapLayers
           /\ legendData = s.legendData
           /\ mapLegend = s.mapLegend
           /\ currentActiveLayer = s.currentActiveLayer
           /\ checked = s.checked
           /\ disabled = s.disabled
           /\ layerStatus = s.layerStatus
           /\ itemActive = s.itemActive
           /\ itemAnalyzing = s.itemAnalyzing
           /\ statsActive = s.statsActive
           /\ status = s.status
           /\ emitted = s.emitted

Init == PageLoaded /\ probe = Idle

(* ---------------------------------------------------------------------- *)
(* Map events                                                              *)
(* ---------------------------------------------------------------------- *)
\* L.Draw.Event.CREATED
ShapeCreated ==
    /\ CanAct
    /\ HasRoom
    /\ LET cleared == clearLayers(drawnItems)
           shape == NewShape(cleared)
       IN  /\ drawnItems' = cleared \cup {shape}
           /\ currentPolygon' = shape
    /\ coordinatesDisplay' = "coordinates"
    /\ Commit(setupROIStart(Cur))
    /\ calls' = AddCall(FetchCall("setup", "forest", FALSE))
    /\ lastEvent' = Event("created", "none")
    /\ userEvents' = userEvents + 1
    /\ lastOutcome' = "none"
    /\ UNCHANGED probe
    /\ UNCHANGED <<timers, raced>>

\* L.Draw.Event.EDITED, for the shape of the group
ShapeEdited ==
    /\ CanAct
    /\ drawnItems # {}
    /\ currentPolygon # NoShape => HasRoom
    /\ coordinatesDisplay' = "coordinates"
    /\ IF currentPolygon # NoShape
       THEN /\ Commit(setupROIStart(Cur))
            /\ calls' = AddCall(FetchCall("setup", "forest", FALSE))
       ELSE /\ Commit(Cur)
            /\ UNCHANGED calls
    /\ lastEvent' = Event("edited", "none")
    /\ userEvents' = userEvents + 1
    /\ lastOutcome' = "none"
    /\ UNCHANGED probe
    /\ UNCHANGED <<drawnItems, currentPolygon, timers, raced>>

\* L.Draw.Event.DELETED, the delete tool having removed the shapes `removed`
ShapeDeleted(removed) ==
    /\ CanAct
    /\ drawnItems # {}
    /\ drawnItems' = drawnItems \ removed
    /\ currentPolygon' = NoShape
    /\ coordinatesDisplay' = "placeholder"
    /\ Commit(resetLayerStates(clearAllLayers([Cur EXCEPT !.roiSetup = FALSE])))
    /\ lastEvent' = Event("deleted", "none")
    /\ userEvents' = userEvents + 1
    /\ lastOutcome' = "none"
    /\ UNCHANGED probe
    /\ UNCHANGED <<calls, timers, raced>>

(* ---------------------------------------------------------------------- *)
(* Toggle change listeners                                                 *)
(* ---------------------------------------------------------------------- *)
\* a listener that forces an analysis on every toggle-on
toggleChanged_AlwaysAnalyzes(s, l) ==
    IF s.checked[l]
    THEN analyzeLayerStart(s, l, TRUE)
    ELSE updateLayerVisibility(s, l, FALSE)

\* the listener's work once the click has flipped the checkbox
toggleChanged(s, l) ==
    IF s.checked[l]
    THEN IF l = "forest"
         THEN (IF s.layersAnalyzed[l] THEN updateLayerVisibility(s, l, TRUE) ELSE s)
         ELSE (IF ~s.layersAnalyzed[l]
               THEN analyzeLayerStart(s, l, FALSE)
               ELSE updateLayerVisibility(s, l, TRUE))
    ELSE updateLayerVisibility(s, l, FALSE)

\* whether that work reaches the fetch of analyzeLayer
toggleIssues(s, l) ==
    s.checked[l] /\ l # "forest" /\ ~s.layersAnalyzed[l] /\ analyzeLayerIssues(s, l, FALSE)

\* the user clicks the toggle of layer l
Toggle(l) ==
    /\ CanAct
    /\ ~disabled[l]
    /\ LET s == [Cur EXCEPT !.checked[l] = ~@]
       IN  /\ toggleIssues(s, l) => HasRoom
           /\ Commit(toggleChanged(s, l))
           /\ calls' = IF toggleIssues(s, l) THEN AddCall(FetchCall("analyze", l, FALSE)) ELSE calls
           /\ lastEvent' = Event(IF s.checked[l] THEN "toggleOn" ELSE "toggleOff", l)
    /\ userEvents' = userEvents + 1
    /\ lastOutcome' = "none"
    /\ UNCHANGED probe
    /\ UNCHANGED <<drawnItems, currentPolygon, coordinatesDisplay, timers, raced>>

(* ---------------------------------------------------------------------- *)
(* Parameter changes and their timers                                      *)
(* ---------------------------------------------------------------------- *)
\* change event of the start date, end date ("date") or resolution ("resolution")
ParameterChange(what) ==
    /\ CanAct
    /\ scheduledTimers(Cur) # <<>> => timers = <<>>
    /\ Commit(handleParameterChange(Cur, what))
    /\ timers' = timers \o scheduledTimers(Cur)
    /\ lastEvent' = Event(what, "none")
    /\ userEvents' = userEvents + 1
    /\ lastOutcome' = "none"
    /\ UNCHANGED probe
    /\ UNCHANGED <<drawnItems, currentPolygon, coordinatesDisplay, calls, raced>>

\* a timer runs analyzeLayer(layerType, true)
TimerFires ==
    /\ timers # <<>>
    /\ LET l == Head(timers)
       IN  /\ analyzeLayerIssues(Cur, l, TRUE) => HasRoom
           /\ Commit(analyzeLayerStart(Cur, l, TRUE))
           /\ calls' = IF analyzeLayerIssues(Cur, l, TRUE)
                       THEN AddCall(FetchCall("analyze", l, TRUE)) ELSE calls
           /\ lastEvent' = Event("timer", l)
    /\ timers' = Tail(timers)
    /\ lastOutcome' = "none"
    /\ UNCHANGED probe
    /\ UNCHANGED <<drawnItems, currentPolygon, coordinatesDisplay, userEvents, raced>>

(* ---------------------------------------------------------------------- *)
(* Responses                                                               *)
(* ---------------------------------------------------------------------- *)
\* the response to POST /api/setup-roi reaches setupROI
SetupResponse(c, outcome) ==
    /\ c.kind = "setup" /\ c.stage = "fetch"
    /\ IF outcome = "success"
       THEN /\ Commit(setupROISuccess(Cur))
            /\ calls' = MarkStale(ReplaceCall(c, LoadCall(c)))
            /\ lastEvent' = Event("setupSuccess", "forest")
       ELSE /\ Commit(setupROIFailure(Cur, outcome))
            /\ calls' = RemoveCall(c)
            /\ lastEvent' = Event("setupFailure", "forest")
    /\ lastOutcome' = outcome
    /\ UNCHANGED probe
    /\ UNCHANGED <<drawnItems, currentPolygon, coordinatesDisplay, timers, userEvents, raced>>

\* the response to POST /api/analyze-layer reaches analyzeLayer
AnalyzeResponse(c, outcome) ==
    /\ c.kind = "analyze" /\ c.stage = "fetch"
    /\ IF outcome = "success"
       THEN /\ Commit(analyzeLayerSuccess(Cur, c.layer, c.re))
            /\ calls' = ReplaceCall(c, LoadCall(c))
            /\ lastEvent' = Event(IF c.re THEN "reanalyzeSuccess" ELSE "analyzeSuccess", c.layer)
       ELSE /\ Commit(analyzeLayerFailure(Cur, c.layer, c.re, outcome))
            /\ calls' = RemoveCall(c)
            /\ lastEvent' = Event(IF c.re THEN "reanalyzeFailure" ELSE "analyzeFailure", c.layer)
    /\ lastOutcome' = outcome
    /\ UNCHANGED probe
    /\ raced' = IF OtherRequestInFlight(c) THEN raced \cup {c.layer} ELSE raced \ {c.layer}
    /\ UNCHANGED <<drawnItems, currentPolygon, coordinatesDisplay, timers, userEvents>>

\* the response to GET /api/{layer}/map-url; the last of the two responses of
\* loadLayerData resumes the suspended call
MapUrlResponse(c, outcome) ==
    /\ c.stage = "load" /\ ~c.mapDone
    /\ outcome = "valid" => FreshOverlay(Cur, c.layer) <= MaxOverlays
    /\ LET s == loadMapLayer(Cur, c.layer, outcome)
       IN  IF c.legendDone
           THEN /\ Commit(finishCall(s, c))
                /\ calls' = RemoveCall(c)
                /\ lastEvent' = Event(IF c.kind = "setup" THEN "setupDone"
                                      ELSE IF c.re THEN "reanalyzeDone" ELSE "analyzeDone", c.layer)
           ELSE /\ Commit(s)
                /\ calls' = ReplaceCall(c, [c EXCEPT !.mapDone = TRUE])
                /\ lastEvent' = Event("mapUrl", c.layer)
    /\ lastOutcome' = "none"
    /\ UNCHANGED probe
    /\ UNCHANGED <<drawnItems, currentPolygon, coordinatesDisplay, timers, userEvents, raced>>

\* the response to GET /api/legends/{layer}
LegendResponse(c, outcome) ==
    /\ c.stage = "load" /\ ~c.legendDone
    /\ LET s == loadLegend(Cur, c.layer, outcome)
       IN  IF c.mapDone
           THEN /\ Commit(finishCall(s, c))
                /\ calls' = RemoveCall(c)
                /\ lastEvent' = Event(IF c.kind = "setup" THEN "setupDone"
                                      ELSE IF c.re THEN "reanalyzeDone" ELSE "analyzeDone", c.layer)
           ELSE /\ Commit(s)
                /\ calls' = ReplaceCall(c, [c EXCEPT !.legendDone = TRUE])
                /\ lastEvent' = Event("legend", c.layer)
    /\ lastOutcome' = "none"
    /\ UNCHANGED probe
    /\ UNCHANGED <<drawnItems, currentPolygon, coordinatesDisplay, timers, userEvents, raced>>

(* ---------------------------------------------------------------------- *)
(* Specification                                                           *)
(* ---------------------------------------------------------------------- *)
Next ==
    \/ ShapeCreated
    \/ ShapeEdited
    \/ \E removed \in SUBSET drawnItems : ShapeDeleted(removed)
    \/ \E l \in UserLayers : Toggle(l)
    \/ \E what \in {"date", "resolution"} : ParameterChange(what)
    \/ TimerFires
    \/ \E c \in InFlight, outcome \in PostOutcomes : SetupResponse(c, outcome)
    \/ \E c \in InFlight, outcome \in PostOutcomes : AnalyzeResponse(c, outcome)
    \/ \E c \in InFlight, outcome \in MapUrlOutcomes : MapUrlResponse(c, outcome)
    \/ \E c \in InFlight, outcome \in LegendOutcomes : LegendResponse(c, outcome)

Spec == Init /\ [][Next]_vars

\* the suspended states call c passes to when a response resumes it
Resumptions(c) ==
    IF c.stage = "fetch" THEN {LoadCall(c)}
    ELSE {[c EXCEPT !.mapDone = TRUE] : x \in {c.mapDone} \ {TRUE}}
             \cup {[c EXCEPT !.legendDone = TRUE] : x \in {c.legendDone} \ {TRUE}}

\* a response resumes a suspended call: the call goes on to its next await
\* or ends
Resumed ==
    \E c \in InFlight :
        \/ calls' = RemoveCall(c)
        \/ \E d \in Resumptions(c) :
               \/ calls' = ReplaceCall(c, d)
               \/ calls' = MarkStale(ReplaceCall(c, d))

\* Every request that was issued receives its response (a success, a failure
\* or an exception): weak fairness of Resumed, written out.  A response can
\* arrive exactly when a call is suspended, so ENABLED <<Resumed>>_vars is
\* calls # EmptyBag.
NextResponsive == Next /\ userEvents' <= MaxLiveEvents

SpecResponsive ==
    /\ Init
    /\ [][NextResponsive]_vars
    /\ ([]<>(calls = EmptyBag) \/ []<><<Resumed>>_vars)

(* ---------------------------------------------------------------------- *)
(* The resolution of an analyze-layer request                              *)
(* ---------------------------------------------------------------------- *)
\* a numeral is the sequence of its digits; the empty sequence is ''
DigitChars == {0, 1, 5}

\* the values the resolution select can hold
SelectValues == UNION {[1..n -> DigitChars] : n \in 0..MaxDigits}

\* a table with the same resolution for every layer
defaultResolution_Flat == [l \in Layers |-> 10]

defaultResolution ==
    [l \in Layers |->
        CASE l = "forest" -> 10
          [] l = "wetland" -> 10
          [] l = "tundra" -> 250
          [] l = "grassland" -> 10
          [] l = "algal_blooms" -> 300
          [] l = "soil" -> 500
          [] l = "chlorophyll" -> 4638]

\* String(n) for a number n >= 0
RECURSIVE String(_)
String(n) == IF n < 10 THEN <<n>> ELSE Append(String(n \div 10), n % 10)

\* the number read from the digits str, acc being the number read so far
RECURSIVE parseDigits(_, _)
parseDigits(str, acc) ==
    IF Len(str) = 0 THEN acc
    ELSE parseDigits(Tail(str), acc * 10 + Head(str))

\* parseInt of a non-empty numeral
parseInt(str) == parseDigits(str, 0)

\* parseInt(resolutionSelect.value || defaultResolution[layerType])
analyzeRequestResolution(select, l) ==
    parseInt(IF Len(select) # 0 THEN select ELSE String(defaultResolution[l]))

InitRequest ==
    /\ PageLoaded
    /\ probe \in {[fn |-> "analyzeRequest", layer |-> l, select |-> v,
                    sent |-> FALSE, resolution |-> 0] : l \in Layers, v \in SelectValues}

\* analyzeLayer builds the body of its request
BuildAnalyzeRequest ==
    /\ probe.fn = "analyzeRequest" /\ ~probe.sent
    /\ probe' = [probe EXCEPT !.sent = TRUE,
                              !.resolution = analyzeRequestResolution(probe.select, probe.layer)]
    /\ UNCHANGED pageVars

NextRequest == BuildAnalyzeRequest

SpecRequest == InitRequest /\ [][NextRequest]_vars

(* ---------------------------------------------------------------------- *)
(* The map-url response of loadLayerData                                   *)
(* ---------------------------------------------------------------------- *)
TileHost == "earthengine.googleapis.com"

\* a URL is the sequence of its parts
UrlParts == {"https://", TileHost, "example.com"}

TileUrls == UNION {[1..n -> UrlParts] : n \in 0..MaxUrlParts}

\* what the fetch of /api/{layer}/map-url can come back with
MapUrlResponses ==
    {[net |-> n, body |-> "none", url |-> <<>>] : n \in {"thrown", "non2xx"}}
    \cup {[net |-> "ok", body |-> b, url |-> <<>>] : b \in {"unparseable", "null", "noTileUrl"}}
    \cup {[net |-> "ok", body |-> "tileUrl", url |-> u] : u \in TileUrls}

\* String.prototype.includes, on parts
includes(url, part) == \E i \in DOMAIN url : url[i] = part

\* a test that trusts every non-empty tile_url
mapUrlOutcome_AnyTileUrl(response) ==
    IF response.net = "ok" /\ response.body = "tileUrl" /\ Len(response.url) # 0
    THEN "valid" ELSE "invalid"

\* whether the response makes loadLayerData build a tile layer
mapUrlOutcome(response) ==
    IF /\ response.net = "ok"
       /\ response.body = "tileUrl"
       /\ Len(response.url) # 0
       /\ includes(response.url, TileHost)
    THEN "valid" ELSE "invalid"

\* how mapPromise settles: its catch handler returns normally
mapPromiseSettles(response) == "fulfilled"

InitMapUrl ==
    /\ PageLoaded
    /\ probe \in {[fn |-> "loadMapLayer", layer |-> l, response |-> r, before |-> b,
                    settled |-> "pending", after |-> b] :
                       l \in UserLayers, r \in MapUrlResponses, b \in {NoOverlay, 1}}

\* the map-url promise of loadLayerData(probe.layer) settles
MapUrlSettles ==
    /\ probe.fn = "loadMapLayer" /\ probe.settled = "pending"
    /\ LET s == [Cur EXCEPT !.analysisLayers[probe.layer] = probe.before]
           s1 == loadMapLayer(s, probe.layer, mapUrlOutcome(probe.response))
       IN  probe' = [probe EXCEPT !.settled = mapPromiseSettles(probe.response),
                                  !.after = s1.analysisLayers[probe.layer]]
    /\ UNCHANGED pageVars

NextMapUrl == MapUrlSettles

SpecMapUrl == InitMapUrl /\ [][NextMapUrl]_vars

(* ---------------------------------------------------------------------- *)
(* Statistics records                                                      *)
(* ---------------------------------------------------------------------- *)
\* a JSON value, by its type; n is the value of a number
Undefined == [t |-> "undefined", n |-> 0]

Null == [t |-> "null", n |-> 0]

Num(n) == [t |-> "number", n |-> n]

\* a non-empty string
Str == [t |-> "string", n |-> 0]

Obj == [t |-> "object", n |-> 0]

Arr == [t |-> "array", n |-> 0]

\* the values a field of a record is given
FieldValues == {Undefined, Null, Num(0), Num(1), Str, Obj, Arr}

\* `if (x)`
truthy(a) == a.t \in {"string", "object", "array"} \/ (a.t = "number" /\ a.n # 0)

\* `x !== undefined`
defined(a) == a.t # "undefined"

\* a record is a function from the names of its fields, a nested field named
\* parent.field; the value of field key of the object at parent ("" for the
\* record itself): a property of a value that is no object is undefined
fieldValue(data, parent, key) ==
    IF parent = "" THEN data[key]
    ELSE IF data[parent].t = "object" THEN data[key]
    ELSE Undefined

\* the element of an array field: a string has characters, another value
\* that is no array has no elements
elementValue(data, parent, key, elem) ==
    LET a == fieldValue(data, parent, key)
    IN  IF a.t = "array" THEN data[elem]
        ELSE IF a.t = "string" THEN Str
        ELSE Undefined

\* toFixed cutting the digits off instead of rounding
toFixed_Truncates(num, den, d) ==
    LET abs == IF num < 0 THEN -num ELSE num
        pow == IF d = 0 THEN 1 ELSE IF d = 1 THEN 10 ELSE 100
    IN  IF den = 0
        THEN [sign |-> IF num < 0 THEN "-" ELSE "",
              scaled |-> 0,
              special |-> IF num = 0 THEN "NaN" ELSE "Infinity"]
        ELSE [sign |-> IF num < 0 THEN "-" ELSE "",
              scaled |-> (abs * pow) \div den,
              special |-> ""]

\* the text x.toFixed(d) of the number num / den (den >= 0): its sign, its
\* digits as the number scaled by 10^d and rounded, or NaN or Infinity
toFixed(num, den, d) ==
    LET abs == IF num < 0 THEN -num ELSE num
        pow == IF d = 0 THEN 1 ELSE IF d = 1 THEN 10 ELSE 100
    IN  IF den = 0
        THEN [sign |-> IF num < 0 THEN "-" ELSE "",
              scaled |-> 0,
              special |-> IF num = 0 THEN "NaN" ELSE "Infinity"]
        ELSE [sign |-> IF num < 0 THEN "-" ELSE "",
              scaled |-> (2 * abs * pow + den) \div (2 * den),
              special |-> ""]

\* no text
NoText == [sign |-> "", scaled |-> 0, special |-> "none"]

(* ---------------------------------------------------------------------- *)
(* Statistics formatters                                                   *)
(* ---------------------------------------------------------------------- *)
\* One row of a formatter: the object it reads (parent, "" for the record),
\* the tests of its `if` (field and test), the fields it calls toFixed on.
Row(name, parent, conds, fixed) ==
    [name |-> name, kind |-> "plain", parent |-> parent, conds |-> conds, fixed |-> fixed]

\* `if (data.f) ... data.f.toFixed(..)`
TruthyNumber(f) == Row(f, "", <<<<f, "truthy">>>>, <<f>>)

\* `if (data.f) ... + data.f`
TruthyText(f) == Row(f, "", <<<<f, "truthy">>>>, <<>>)

\* inside `if (data.parent)`: `if (parent.f !== undefined) ... parent.f.toFixed(..)`
DefinedNumber(parent, f) == Row(f, parent, <<<<f, "defined">>>>, <<f>>)

\* `if (data.f || data.g) ... (data.f || data.g).toFixed(..)`
EitherNumber(f, g) ==
    [name |-> f, kind |-> "either", parent |-> "",
     conds |-> <<<<f, "truthy">>, <<g, "truthy">>>>, fixed |-> <<>>]

\* inside `if (data.parent)`: `if (parent.from && parent.to && parent.areas)`,
\* then toFixed on areas[0], on areas[1] and on their difference
ChangeRow(parent, from, to, areas) ==
    [name |-> areas, kind |-> "change", parent |-> parent,
     conds |-> <<<<from, "truthy">>, <<to, "truthy">>, <<areas, "truthy">>>>, fixed |-> <<>>]

\* the first and the second element of the array field key
First(key) == key \o "[0]"

Second(key) == key \o "[1]"

\* whether test i of the row passes
condHolds(data, row, i) ==
    LET a == fieldValue(data, row.parent, row.conds[i][1])
    IN  IF row.conds[i][2] = "truthy" THEN truthy(a) ELSE defined(a)

\* whether the `if` of the row lets it through
rowShown(data, row) ==
    /\ row.parent = "" \/ truthy(data[row.parent])
    /\ IF row.kind = "either"
       THEN \E i \in 1..Len(row.conds) : condHolds(data, row, i)
       ELSE \A i \in 1..Len(row.conds) : condHolds(data, row, i)

\* whether a toFixed of the row is called on a value that is no number
rowThrows(data, row) ==
    CASE row.kind = "either" ->
            LET f == data[row.conds[1][1]]
                g == data[row.conds[2][1]]
            IN  (IF truthy(f) THEN f ELSE g).t # "number"
      [] row.kind = "change" ->
            \/ elementValue(data, row.parent, row.name, First(row.name)).t # "number"
            \/ elementValue(data, row.parent, row.name, Second(row.name)).t # "number"
      [] OTHER ->
            \E i \in 1..Len(row.fixed) :
                fieldValue(data, row.parent, row.fixed[i]).t # "number"

forestRows ==
    << TruthyNumber("roi_area_km2"),
       TruthyNumber("roi_area_ha"),
       TruthyNumber("mean_NDVI"),
       TruthyNumber("mean_NBR"),
       TruthyText("forest_classification"),
       DefinedNumber("biomass_partitioning", "biomass_partitioning.aboveground_biomass_Mg_per_ha"),
       DefinedNumber("biomass_partitioning", "biomass_partitioning.belowground_biomass_Mg_per_ha"),
       DefinedNumber("biomass_partitioning", "biomass_partitioning.total_biomass_Mg_per_ha"),
       DefinedNumber("biomass_estimation", "biomass_estimation.average_biomass_Mg_per_ha"),
       DefinedNumber("biomass_estimation", "biomass_estimation.total_biomass_Mg"),
       DefinedNumber("carbon_stock_estimation", "carbon_stock_estimation.conversion_factor"),
       DefinedNumber("carbon_stock_estimation",
                     "carbon_stock_estimation.average_carbon_stock_MgC_per_ha"),
       DefinedNumber("carbon_stock_estimation", "carbon_stock_estimation.total_carbon_stock_MgC"),
       DefinedNumber("co2_equivalent_estimation", "co2_equivalent_estimation.conversion_factor"),
       DefinedNumber("co2_equivalent_estimation", "co2_equivalent_estimation.total_co2_eq_Mg") >>

wetlandRows ==
    << EitherNumber("roi_area_km2", "area_km2"),
       TruthyNumber("roi_area_ha"),
       TruthyNumber("mean_ndwi"),
       TruthyNumber("mean_mndwi"),
       TruthyText("wetland_class"),
       TruthyNumber("water_frequency_index"),
       ChangeRow("change_over_time", "change_over_time.start_year",
                 "change_over_time.end_year", "change_over_time.wetland_area_ha"),
       DefinedNumber("biomass_carbon", "biomass_carbon.aboveground_biomass_Mg_per_ha"),
       DefinedNumber("biomass_carbon", "biomass_carbon.total_carbon_stock_MgC"),
       DefinedNumber("biomass_carbon", "biomass_carbon.co2_equivalent_MgCO2e") >>

\* `if (data.total_tundra_area_km2 !== undefined && data.tundra_coverage_percent !== undefined)`
tundraCoverage ==
    << <<"total_tundra_area_km2", "defined">>, <<"tundra_coverage_percent", "defined">> >>

tundraRows ==
    << TruthyNumber("roi_area_km2"),
       TruthyText("analysis_method"),
       Row("total_tundra_area_km2", "", tundraCoverage, <<"total_tundra_area_km2">>),
       Row("tundra_coverage_percent", "", tundraCoverage, <<"tundra_coverage_percent">>),
       Row("dominant_tundra_type", "",
           tundraCoverage \o << <<"dominant_tundra_type", "truthy">> >>, <<>>),
       DefinedNumber("class_areas_km2", "class_areas_km2.arctic_tundra"),
       DefinedNumber("class_areas_km2", "class_areas_km2.alpine_tundra"),
       DefinedNumber("class_areas_km2", "class_areas_km2.wet_tundra"),
       DefinedNumber("class_areas_km2", "class_areas_km2.shrub_dry_tundra"),
       DefinedNumber("environmental_indicators",
                     "environmental_indicators.mean_temperature_celsius"),
       DefinedNumber("environmental_indicators", "environmental_indicators.mean_ndvi"),
       DefinedNumber("environmental_indicators",
                     "environmental_indicators.permafrost_probability") >>

\* the layers whose formatters are modelled
StatisticsLayers == {"forest", "wetland", "tundra"}

\* displayStatistics: the formatter of the layer
displayFunctions == [forest |-> forestRows, wetland |-> wetlandRows, tundra |-> tundraRows]

\* the texts of the wetland area row: start and end area, change, percent
changeTexts(data, row) ==
    LET s == elementValue(data, row.parent, row.name, First(row.name)).n
        e == elementValue(data, row.parent, row.name, Second(row.name)).n
    IN  [start |-> toFixed(s, 1, 2), end |-> toFixed(e, 1, 2),
         change |-> toFixed(e - s, 1, 2), percent |-> toFixed((e - s) * 100, s, 1)]

NoChange == [start |-> NoText, end |-> NoText, change |-> NoText, percent |-> NoText]

\* A formatter builds its rows in order and writes them to the panel at its
\* end: the names of the rows written, or that a toFixed threw before
displayStatistics(l, data) ==
    LET rows == displayFunctions[l]
        shown == {i \in 1..Len(rows) : rowShown(data, rows[i])}
        threw == \E i \in shown : rowThrows(data, rows[i])
        names == [i \in 1..Len(rows) |-> rows[i].name]
        changed == {i \in shown : rows[i].kind = "change"}
    IN  [threw |-> threw,
         rows |-> IF threw THEN <<>> ELSE SelectSeq(names, LAMBDA f :
                      \E i \in shown : rows[i].name = f),
         change |-> IF threw \/ changed = {} THEN NoChange
                    ELSE changeTexts(data, rows[CHOOSE i \in changed : TRUE])]

\* the fields of the record itself that a formatter reads
ownFields(rows) ==
    UNION {IF rows[i].parent = ""
           THEN {rows[i].conds[j][1] : j \in 1..Len(rows[i].conds)}
           ELSE {rows[i].parent} : i \in 1..Len(rows)}

\* `Object.keys(data).length > 0`: a field of the record itself is there
hasKeys(l, data) == \E f \in ownFields(displayFunctions[l]) : defined(data[f])

\* loadStatistics after the response: the panel of the layer
statisticsPanel(l, data) ==
    LET out == displayStatistics(l, data)
    IN  IF ~hasKeys(l, data)
        THEN [message |-> "No statistics available", rows |-> <<>>, change |-> NoChange]
        ELSE IF out.threw
        THEN [message |-> "Error loading data", rows |-> <<>>, change |-> NoChange]
        ELSE [message |-> "", rows |-> out.rows, change |-> out.change]

\* a record as the formatter expects it, per layer: its objects, its texts,
\* its arrays; every other field is a number
objectFields ==
    {"biomass_partitioning", "biomass_estimation", "carbon_stock_estimation",
     "co2_equivalent_estimation", "change_over_time", "biomass_carbon",
     "class_areas_km2", "environmental_indicators"}

textFields == {"forest_classification", "wetland_class", "analysis_method",
               "dominant_tundra_type"}

arrayFields == {"change_over_time.wetland_area_ha"}

\* the fields a formatter reads
fieldsRead(rows) ==
    UNION {   ({rows[i].parent} \ {""})
            \cup {rows[i].conds[j][1] : j \in 1..Len(rows[i].conds)}
            \cup (IF rows[i].kind = "change"
                  THEN {First(rows[i].name), Second(rows[i].name)} ELSE {})
          : i \in 1..Len(rows)}

expectedRecord(l) ==
    [f \in fieldsRead(displayFunctions[l]) |->
        IF f \in objectFields THEN Obj
        ELSE IF f \in textFields THEN Str
        ELSE IF f \in arrayFields THEN Arr
        ELSE Num(2)]

\* the records that differ from d in at most k fields
RECURSIVE OddRecords(_, _)
OddRecords(d, k) ==
    IF k = 0 THEN {d}
    ELSE LET less == OddRecords(d, k - 1)
         IN  less \cup {[r EXCEPT ![f] = a] : r \in less, f \in DOMAIN d, a \in FieldValues}

\* the wetland records with areas in 0..MaxArea
AreaRecords ==
    LET areas == "change_over_time.wetland_area_ha"
    IN  {[expectedRecord("wetland") EXCEPT ![First(areas)] = Num(s), ![Second(areas)] = Num(e)] :
            s \in 0..MaxArea, e \in 0..MaxArea}

\* the records a statistics response carries
StatisticsRecords(l) ==
    OddRecords(expectedRecord(l), MaxOddFields)
        \cup {[f \in DOMAIN expectedRecord(l) |-> Undefined]}
        \cup (IF l = "wetland" THEN AreaRecords ELSE {})

InitStatistics ==
    /\ PageLoaded
    /\ probe \in UNION {{[fn |-> "loadStatistics", layer |-> l, data |-> d, shown |-> FALSE,
                          panel |-> [message |-> "Loading", rows |-> <<>>, change |-> NoChange]] :
                            d \in StatisticsRecords(l)} : l \in StatisticsLayers}

\* the statistics response arrives
StatisticsResponse ==
    /\ probe.fn = "loadStatistics"
    /\ ~probe.shown
    /\ probe' = [probe EXCEPT !.shown = TRUE,
                              !.panel = statisticsPanel(probe.layer, probe.data)]
    /\ UNCHANGED pageVars

NextStatistics == StatisticsResponse

SpecStatistics == InitStatistics /\ [][NextStatistics]_vars

(* ---------------------------------------------------------------------- *)
(* Properties                                                              *)
(* ---------------------------------------------------------------------- *)
\* the overlays of layer l attached to the map
Attached(l) == {o \in mapLayers : o[1] = l}

\* the analyze-layer requests for layer l among the requests reqs
AnalyzeRequests(reqs, l) ==
    Len(SelectSeq(reqs, LAMBDA r : r = Request("analyze-layer", l)))

\* a call of analyzeLayer for layer l is suspended
AnalysisInFlight(l) == \E c \in InFlight : c.kind = "analyze" /\ c.layer = l

\* C1: in every reachable state at most one tile overlay of each layer is
\* attached to the map.
C1_AtMostOneOverlayPerLayer ==
    \A l \in Layers : Cardinality(Attached(l)) <= 1

\* C2: toggling layer l on with the ROI established, l not analyzed and no
\* request for l in flight issues exactly one analyze-layer request for l;
\* toggling l on while it is marked analyzed (its analysis has succeeded and
\* no ROI setup or deletion has reset it) issues none.
C2_ToggleOnStep ==
    \A l \in Layers :
        lastEvent' = Event("toggleOn", l) =>
            /\ (roiSetup /\ ~layersAnalyzed[l] /\ ~AnalysisInFlight(l))
                   => AnalyzeRequests(emitted', l) = 1
            /\ layersAnalyzed[l] => AnalyzeRequests(emitted', l) = 0

\* C2: every step satisfies the statement above.
C2_ToggleOnIssuesOneRequestThenNone == [][C2_ToggleOnStep]_vars

\* C2 witness: wetland was analyzed on its first toggle-on, and a later
\* toggle-on of it has just issued no request.
C2_Witness ==
    /\ lastEvent = Event("toggleOn", "wetland")
    /\ layersAnalyzed["wetland"]
    /\ analysisLayers["wetland"] # NoOverlay
    /\ AnalyzeRequests(emitted, "wetland") = 0

\* C3: the active layer (recorded as current active layer, its statistics
\* panel marked active) is analyzed and its toggle is checked; when no layer
\* is both analyzed and checked, no layer is active.
C3_ActiveLayerAnalyzedAndChecked ==
    /\ \A l \in Layers :
           (currentActiveLayer = l /\ statsActive[l]) => (layersAnalyzed[l] /\ checked[l])
    /\ (\A l \in Layers : ~(layersAnalyzed[l] /\ checked[l]))
           => \A l \in Layers : ~statsActive[l]

\* C4: after analyzeLayer(l, isReanalysis) has ended in failure, layer l is
\* not marked analyzed, for a non-forced and for a forced call.
C4_FailureLeavesLayerUnanalyzed ==
    \A l \in Layers :
        lastEvent \in {Event("analyzeFailure", l), Event("reanalyzeFailure", l)}
            => ~layersAnalyzed[l]

\* C5: immediately after the shape-deleted handler no layer is analyzed,
\* every toggle is disabled and unchecked, the ROI slot is empty, the ROI is
\* not established, forest's status text is the ready/default placeholder and
\* no layer other than forest carries the active marker.
C5_StateAfterDeletion ==
    lastEvent = Event("deleted", "none") =>
        /\ \A l \in Layers : ~layersAnalyzed[l] /\ disabled[l] /\ ~checked[l]
        /\ currentPolygon = NoShape
        /\ ~roiSetup
        /\ layerStatus["forest"] = "Ready (Default)"
        /\ \A l \in Layers \ {"forest"} : ~itemActive[l]

\* C5 witness: a deletion after forest and wetland had been analyzed and shown.
C5_Witness ==
    /\ lastEvent = Event("deleted", "none")
    /\ analysisLayers["forest"] # NoOverlay
    /\ analysisLayers["wetland"] # NoOverlay

\* C6: immediately after the shape-deleted handler no analysis overlay of any
\* layer is attached to the map.
C6_NoOverlayAfterDeletion ==
    lastEvent = Event("deleted", "none") => mapLayers = {}

\* C7: a layer toggle is enabled only if an ROI exists: a polygon is in the
\* ROI slot and ROI setup is marked established.
C7_EnabledOnlyWithROI ==
    \A l \in Layers : ~disabled[l] => (currentPolygon # NoShape /\ roiSetup)

\* the state the success branch of setupROI sets up
SetupSuccessState ==
    /\ roiSetup
    /\ layersAnalyzed = [l \in Layers |-> l = "forest"]
    /\ \A l \in Layers : ~disabled[l]
    /\ checked = [l \in Layers |-> l = "forest"]

\* C8 as stated: on completion of a setupROI whose response was a success the
\* ROI is established, exactly forest is analyzed, all toggles are enabled,
\* forest's toggle is checked and every other toggle is unchecked.
C8_SetupSuccessStateAtCompletion ==
    lastEvent = Event("setupDone", "forest") => SetupSuccessState

\* C8 as amended: that state holds when setupROI has handled the success
\* response, before it waits for forest's overlay and legend; on completion
\* forest's toggle is checked and enabled.
C8_SetupSuccessStateAtResponse ==
    /\ lastEvent = Event("setupSuccess", "forest") => SetupSuccessState
    /\ lastEvent = Event("setupDone", "forest") => (checked["forest"] /\ ~disabled["forest"])

\* C8 witness: a success response for a re-drawn or edited ROI, wetland having
\* been analyzed under the earlier one.
C8_Witness ==
    /\ lastEvent = Event("setupSuccess", "forest")
    /\ analysisLayers["wetland"] # NoOverlay

\* forest's cached overlay is on the map and forest is the active layer
ForestShownAndActive ==
    /\ <<"forest", analysisLayers["forest"]>> \in mapLayers
    /\ currentActiveLayer = "forest"
    /\ statsActive["forest"]

\* C9 as stated: on completion of a successful setupROI the forest overlay is
\* attached to the map and forest is the active layer, whatever the map-url
\* and legend fetches returned.
C9_ForestShownAtCompletion ==
    lastEvent = Event("setupDone", "forest") =>
        (Attached("forest") # {} /\ currentActiveLayer = "forest" /\ statsActive["forest"])

\* C9 as amended: on completion of a successful setupROI, if an overlay of
\* forest is cached and forest is still marked analyzed, that overlay is
\* attached to the map and forest is the active layer.
C9_ForestShownAtCompletionIfLoaded ==
    (lastEvent = Event("setupDone", "forest") /\ analysisLayers["forest"] # NoOverlay
        /\ layersAnalyzed["forest"])
        => ForestShownAndActive

\* C9 witness: setupROI completed with the overlay loaded and the legend
\* fetch failed.
C9_Witness ==
    /\ lastEvent = Event("setupDone", "forest")
    /\ legendData["forest"] = "undefined"
    /\ ForestShownAndActive

\* C10: when setupROI fails, the ROI is marked not established, no layer is
\* analyzed, every toggle is disabled and unchecked and an error status
\* message is shown.
C10_StateAfterSetupFailure ==
    lastEvent = Event("setupFailure", "forest") =>
        /\ ~roiSetup
        /\ \A l \in Layers : ~layersAnalyzed[l] /\ disabled[l] /\ ~checked[l]
        /\ status.type = "error"

\* C10 witness: the setup of an edited or re-drawn ROI failed after an
\* earlier one had succeeded and forest was shown.
C10_Witness ==
    /\ lastEvent = Event("setupFailure", "forest")
    /\ Attached("forest") # {}

(* ---------------------------------------------------------------------- *)
(* Failures of analyzeLayer                                                *)
(* ---------------------------------------------------------------------- *)
\* the steps in which analyzeLayer handles a failed response for layer l
FailureEvents(l) == {Event("analyzeFailure", l), Event("reanalyzeFailure", l)}

\* the status texts a failed analysis leaves on the layer item
RetryTexts == {"Error - Click toggle to retry", "Failed - Click toggle to retry"}

\* C11: the step in which a non-forced analyzeLayer(l) handles a failure
\* leaves l's toggle unchecked; the step in which a forced re-analysis of l
\* handles a failure leaves l's toggle as it was when the response arrived.
C11_FailureStep ==
    \A l \in Layers :
        /\ lastEvent' = Event("analyzeFailure", l) => ~checked'[l]
        /\ lastEvent' = Event("reanalyzeFailure", l) => checked'[l] = checked[l]

\* C11: every step satisfies the statement above.
C11_ToggleAfterFailure == [][C11_FailureStep]_vars

\* C11 witness: a forced re-analysis of wetland, shown since its first
\* analysis, has failed with a non-2xx response and its toggle is still checked.
C11_Witness ==
    /\ lastEvent = Event("reanalyzeFailure", "wetland")
    /\ lastOutcome = "http_detail"
    /\ checked["wetland"]
    /\ Attached("wetland") # {}

\* C12: a forced re-analysis request (a timer's analyzeLayer(l, true) that
\* reaches its fetch) is issued in a state where l's toggle is checked.
C12_ForcedRequestIssuedWhileChecked ==
    \A l \in Layers :
        (lastEvent = Event("timer", l) /\ AnalyzeRequests(emitted, l) = 1) => checked[l]

\* C13: after a failed analysis of layer l, forced or not, l's toggle is
\* enabled and the next toggle-on of l issues an analyze-layer request.
\* Stated for the layers whose toggle listener calls analyzeLayer and for
\* the failures handled while the ROI is in place.
C13_RetryableAfterFailure ==
    \A l \in Layers \ {"forest"} :
        (lastEvent \in FailureEvents(l) /\ roiSetup /\ currentPolygon # NoShape) =>
            /\ ~disabled[l]
            /\ toggleIssues([Cur EXCEPT !.checked[l] = TRUE], l)

\* C14 as stated: after a failed analyze-layer request the status message is
\* of kind error and carries the body's detail (application-level failure,
\* non-2xx with a parseable body), 'Unknown error' when no detail can be
\* extracted, the exception's message for a thrown request.
C14_StatusCarriesDetail ==
    \A l \in Layers :
        lastEvent \in FailureEvents(l) =>
            /\ status.type = "error"
            /\ status.detail =
                   CASE lastOutcome = "app_detail" -> "result.detail"
                     [] lastOutcome = "http_detail" -> "errorData.detail"
                     [] lastOutcome \in {"app_nodetail", "http_nodetail", "http_unparseable"}
                            -> "Unknown error"
                     [] lastOutcome = "exception" -> "error.message"

\* C14 as amended: the same, except that a non-2xx response whose parseable
\* body has no detail yields the text 'HTTP <status code>'; 'Unknown error'
\* is the text of an application-level failure without detail and of a
\* non-2xx response whose body cannot be parsed.
C14_StatusCarriesDetailOrHttpStatus ==
    \A l \in Layers :
        lastEvent \in FailureEvents(l) =>
            /\ status.type = "error"
            /\ status.detail =
                   CASE lastOutcome = "app_detail" -> "result.detail"
                     [] lastOutcome = "http_detail" -> "errorData.detail"
                     [] lastOutcome = "http_nodetail" -> "HTTP status"
                     [] lastOutcome \in {"app_nodetail", "http_unparseable"} -> "Unknown error"
                     [] lastOutcome = "exception" -> "error.message"

\* C14 witness: the analysis of wetland was answered by a non-2xx response
\* with a body without detail.
C14_Witness ==
    /\ lastEvent = Event("analyzeFailure", "wetland")
    /\ lastOutcome = "http_nodetail"
    /\ status = [type |-> "error", detail |-> "HTTP status"]

\* C15: a step in which analyzeLayer runs while the ROI is not established
\* (a re-analysis timer firing after the ROI was lost) issues no request,
\* suspends no call and changes no layer state; it shows an error message.
C15_NoRoiStep ==
    \A l \in Layers :
        (lastEvent' = Event("timer", l) /\ ~roiSetup) =>
            /\ emitted' = <<>>
            /\ calls' = calls
            /\ UNCHANGED <<roiSetup, layersAnalyzed, checked, disabled, analysisLayers,
                           mapLayers, legendData, mapLegend, layerStatus, itemAnalyzing,
                           itemActive, currentActiveLayer, statsActive>>
            /\ status'.type = "error"

\* C15: every step satisfies the statement above.
C15_AnalyzeWithoutROI == [][C15_NoRoiStep]_vars

\* C15 witness: forest's re-analysis timer has fired after the deletion of
\* the ROI and left only the error message.
C15_Witness ==
    /\ lastEvent = Event("timer", "forest")
    /\ ~roiSetup
    /\ currentPolygon = NoShape
    /\ status.type = "error"
    /\ emitted = <<>>

(* ---------------------------------------------------------------------- *)
(* Parameter changes, visibility, concurrent requests                      *)
(* ---------------------------------------------------------------------- *)
\* how many of the pending timers re-analyze layer l
TimersFor(pending, l) == Len(SelectSeq(pending, LAMBDA x : x = l))

\* C16: a change of a date or of the resolution does nothing when the ROI is
\* not established; otherwise it sets exactly one re-analysis timer for each
\* layer that is analyzed and checked at that moment, none for another layer.
C16_ChangeStep ==
    lastEvent'.op \in {"date", "resolution"} =>
        IF ~roiSetup
        THEN /\ timers' = timers
             /\ emitted' = <<>>
             /\ UNCHANGED <<status, layerStatus, layersAnalyzed, checked, disabled,
                            mapLayers, calls>>
        ELSE \A l \in Layers :
                 TimersFor(timers', l) - TimersFor(timers, l) =
                     IF layersAnalyzed[l] /\ checked[l] THEN 1 ELSE 0

\* C16: every step satisfies the statement above.
C16_ChangeSchedulesVisibleLayers == [][C16_ChangeStep]_vars

\* C16 witness: a date change with wetland analyzed and checked, forest
\* analyzed and unchecked: the only timer is wetland's.
C16_Witness ==
    /\ lastEvent = Event("date", "none")
    /\ roiSetup
    /\ layersAnalyzed["forest"] /\ ~checked["forest"]
    /\ timers = <<"wetland">>

\* the layers other than l that are checked and analyzed
OthersVisible(l) == {k \in Layers \ {l} : checked[k] /\ layersAnalyzed[k]}

\* the last layer of a set in the enumeration order
LastInOrder(ls) ==
    validLayers[CHOOSE i \in 1..Len(validLayers) :
                    /\ validLayers[i] \in ls
                    /\ \A j \in 1..Len(validLayers) : validLayers[j] \in ls => j <= i]

\* C17: toggling layer l off while no other layer is checked and analyzed
\* leaves the legend panel hidden and no statistics panel active.
C17_LastLayerOffStep ==
    \A l \in Layers :
        (lastEvent' = Event("toggleOff", l) /\ OthersVisible(l) = {}) =>
            /\ mapLegend' = "hidden"
            /\ \A k \in Layers : ~statsActive'[k]

\* C17: every step satisfies the statement above.
C17_NothingShownAfterLastLayerOff == [][C17_LastLayerOffStep]_vars

\* C17 witness: forest, the only visible layer, its overlay and legend
\* loaded, has been toggled off.
C17_Witness ==
    /\ lastEvent = Event("toggleOff", "forest")
    /\ layersAnalyzed["forest"]
    /\ analysisLayers["forest"] # NoOverlay
    /\ legendData["forest"] = "withKey"
    /\ OthersVisible("forest") = {}
    /\ mapLegend = "hidden"

\* C18: toggling layer l off while other layers are checked and analyzed
\* makes the last of them in enumeration order the active layer, and the
\* legend panel shows that layer's legend.  Stated for the steps taken when
\* every earlier map-url and legend fetch has been answered.
C18_OtherLayerStep ==
    \A l \in Layers :
        (lastEvent' = Event("toggleOff", l) /\ OthersVisible(l) # {} /\ calls = EmptyBag) =>
            /\ currentActiveLayer' = LastInOrder(OthersVisible(l))
            /\ statsActive'[LastInOrder(OthersVisible(l))]
            /\ mapLegend' = LastInOrder(OthersVisible(l))

\* C18: every step satisfies the statement above.
C18_LastVisibleLayerPromoted == [][C18_OtherLayerStep]_vars

\* the steps in which analyzeLayer handles the POST response for layer l
ResponseEvents(l) ==
    FailureEvents(l) \cup {Event("analyzeSuccess", l), Event("reanalyzeSuccess", l)}

\* C19: when the second of two analyze-layer responses of layer l, whose
\* requests were in flight at once, is handled, the analyzed flag of l is
\* that of this response: set after a success, clear after a failure, the
\* status text then being the retry text.
C19_LastResponseStep ==
    \A l \in Layers :
        (l \in raced /\ l \notin raced' /\ lastEvent' \in ResponseEvents(l)) =>
            IF lastEvent' \in FailureEvents(l)
            THEN ~layersAnalyzed'[l] /\ layerStatus'[l] \in RetryTexts
            ELSE layersAnalyzed'[l]

\* C19: every step satisfies the statement above.
C19_LastResponseWins == [][C19_LastResponseStep]_vars

\* the steps in which an analyzeLayer call for layer l completes
DoneEvents(l) == {Event("analyzeDone", l), Event("reanalyzeDone", l)}

\* C20 as stated, for the completions it is about: when a successful
\* analysis of l completes with l's toggle off and an overlay of l loaded,
\* that overlay is attached to the map.
C20_OverlayAttachedWhileOff ==
    \A l \in Layers :
        (lastEvent \in DoneEvents(l) /\ ~checked[l] /\ ~disabled[l] /\ roiSetup
            /\ layersAnalyzed[l] /\ analysisLayers[l] # NoOverlay)
            => <<l, analysisLayers[l]>> \in mapLayers

\* C20 as amended: the step in which a successful analysis of l completes
\* while l's toggle is off attaches no overlay to the map; it sets l's status
\* text to 'Analyzed' and marks l's layer item active.
C20_CompletionWhileOffStep ==
    \A l \in Layers :
        (lastEvent' \in DoneEvents(l) /\ ~checked[l]) =>
            /\ mapLayers' = mapLayers
            /\ ~checked'[l]
            /\ layerStatus'[l] = "Analyzed"
            /\ itemActive'[l]

\* C20: every step satisfies the amended statement.
C20_NoOverlayAttachedWhileOff == [][C20_CompletionWhileOffStep]_vars

\* C20 witness: wetland's toggle was switched off while its analysis was in
\* flight; the analysis has completed, its overlay is loaded and not attached.
C20_Witness ==
    /\ lastEvent = Event("analyzeDone", "wetland")
    /\ roiSetup
    /\ ~checked["wetland"] /\ ~disabled["wetland"]
    /\ layersAnalyzed["wetland"]
    /\ analysisLayers["wetland"] # NoOverlay
    /\ Attached("wetland") = {}
    /\ layerStatus["wetland"] = "Analyzed"

(* ---------------------------------------------------------------------- *)
(* Toggle cycles, drawn shapes, statistics requests, stale responses       *)
(* ---------------------------------------------------------------------- *)
\* the page after a click on l's toggle: the checkbox flipped, the listener run
AfterToggle(s, l) == toggleChanged([s EXCEPT !.checked[l] = ~@], l)

\* the map-url, legend and analyze-layer requests among the requests reqs
DataRequests(reqs) ==
    SelectSeq(reqs, LAMBDA r : r.req \in {"map-url", "legends", "analyze-layer"})

\* C21 as stated: for an analyzed layer l with a cached overlay, whose toggle
\* is on, toggling l off and on again attaches the cached overlay, issues no
\* map-url, legend or analyze-layer request and leaves the set of attached
\* overlays as it was before the cycle.
C21_OffOnCycle ==
    \A l \in Layers :
        (layersAnalyzed[l] /\ analysisLayers[l] # NoOverlay /\ checked[l] /\ ~disabled[l]) =>
            LET off == AfterToggle(Cur, l)
                on == AfterToggle(off, l)
            IN  /\ <<l, analysisLayers[l]>> \in on.mapLayers
                /\ DataRequests(on.emitted) = <<>>
                /\ on.mapLayers = mapLayers

\* C21 as amended: the same for a layer whose cached overlay is attached to
\* the map before the cycle; the toggle-off takes that overlay off the map.
C21_OffOnCycleOfShownLayer ==
    \A l \in Layers :
        (layersAnalyzed[l] /\ analysisLayers[l] # NoOverlay /\ checked[l] /\ ~disabled[l]
            /\ <<l, analysisLayers[l]>> \in mapLayers) =>
            LET off == AfterToggle(Cur, l)
                on == AfterToggle(off, l)
            IN  /\ <<l, analysisLayers[l]>> \notin off.mapLayers
                /\ on.analysisLayers[l] = analysisLayers[l]
                /\ <<l, analysisLayers[l]>> \in on.mapLayers
                /\ DataRequests(on.emitted) = <<>>
                /\ on.mapLayers = mapLayers

\* C21 witness: the third user event has toggled forest on again, after its
\* toggle-off: forest's cached overlay is back on the map, no request was sent.
C21_Witness ==
    /\ lastEvent = Event("toggleOn", "forest")
    /\ userEvents = 3
    /\ layersAnalyzed["forest"]
    /\ calls = EmptyBag
    /\ checked["forest"]
    /\ mapLayers = {<<"forest", analysisLayers["forest"]>>}
    /\ DataRequests(emitted) = <<>>

C27_SetActiveLayerRequestsStatistics ==
    \A l \in Layers :
        LET once == setActiveLayer(Cur, l)
            twice == setActiveLayer(once, l)
        IN  /\ once.emitted = IF layersAnalyzed[l] THEN <<Request("statistics", l)>> ELSE <<>>
            /\ twice.emitted = once.emitted \o once.emitted

\* C27 witness: the completion of wetland's analysis has invoked
\* setActiveLayer twice (from updateLayerVisibility and directly) and issued
\* two statistics requests.
C27_Witness ==
    /\ lastEvent = Event("analyzeDone", "wetland")
    /\ emitted = <<Request("statistics", "wetland"), Request("statistics", "wetland")>>

\* C28: if an overlay of layer l is attached to the map then l is analyzed
\* and l's toggle is checked.
C28_AttachedImpliesAnalyzedAndChecked ==
    \A o \in mapLayers : layersAnalyzed[o[1]] /\ checked[o[1]]

\* C29: if a layer is marked analyzed then the ROI is marked established.
C29_AnalyzedImpliesROI ==
    \A l \in Layers : layersAnalyzed[l] => roiSetup

\* C30: the step in which analyzeLayer handles a success response to a
\* request sent before the latest successful setupROI does not mark the
\* layer analyzed.
C30_StaleSuccessStep ==
    \A c \in InFlight :
        (/\ AwaitsAnalysis(c) /\ c.stale
         /\ lastEvent' \in {Event("analyzeSuccess", c.layer), Event("reanalyzeSuccess", c.layer)}
         /\ calls' = ReplaceCall(c, LoadCall(c)))
            => ~layersAnalyzed'[c.layer]

\* C30: every step satisfies the statement above.
C30_StaleResponseIgnored == [][C30_StaleSuccessStep]_vars

(* ---------------------------------------------------------------------- *)
(* Request parameters and tile URLs                                        *)
(* ---------------------------------------------------------------------- *)
\* C22: an analyze-layer request built while the resolution select holds ''
\* carries the layer's resolution of the fixed table; built while the select
\* holds a numeral, it carries that numeral's value.
C22_RequestResolution ==
    (probe.fn = "analyzeRequest" /\ probe.sent) =>
        IF Len(probe.select) = 0
        THEN probe.resolution =
                 CASE probe.layer = "forest" -> 10
                   [] probe.layer = "wetland" -> 10
                   [] probe.layer = "tundra" -> 250
                   [] probe.layer = "grassland" -> 10
                   [] probe.layer = "algal_blooms" -> 300
                   [] probe.layer = "soil" -> 500
                   [] probe.layer = "chlorophyll" -> 4638
        ELSE (Len(probe.select) = 1 \/ probe.select[1] # 0)
                 => String(probe.resolution) = probe.select

\* C22 witness: a request for tundra built with nothing selected.
C22_Witness ==
    /\ probe.fn = "analyzeRequest" /\ probe.sent
    /\ probe.layer = "tundra"
    /\ Len(probe.select) = 0
    /\ probe.resolution = 250

\* C26: loadLayerData creates or replaces the cached overlay of the layer
\* exactly when the map-url response is 2xx and its tile_url contains the
\* tile-service host; otherwise the cached overlay is as before; in every
\* case the promise is fulfilled, no exception escapes.
C26_OverlayReplacedOnlyForTrustedUrl ==
    (probe.fn = "loadMapLayer" /\ probe.settled # "pending") =>
        /\ probe.settled = "fulfilled"
        /\ IF /\ probe.response.net = "ok" /\ probe.response.body = "tileUrl"
               /\ \E i \in DOMAIN probe.response.url : probe.response.url[i] = TileHost
           THEN probe.after \notin {NoOverlay, probe.before}
           ELSE probe.after = probe.before

\* C26 witness: a cached overlay and a 2xx response whose tile_url has no
\* trusted host: the overlay is kept.
C26_Witness ==
    /\ probe.fn = "loadMapLayer" /\ probe.settled = "fulfilled"
    /\ probe.response.body = "tileUrl"
    /\ probe.response.url = <<"https://", "example.com">>
    /\ probe.before = 1
    /\ probe.after = 1

(* ---------------------------------------------------------------------- *)
(* Statistics formatters: properties                                       *)
(* ---------------------------------------------------------------------- *)
\* the statistics response of the record was handled
StatisticsShown == probe.fn = "loadStatistics" /\ probe.shown

\* the field of the row named name is in the record, and not null
rowPresent(l, data, name) ==
    LET rows == displayFunctions[l]
        row == rows[CHOOSE i \in 1..Len(rows) : rows[i].name = name]
        there(f) == fieldValue(data, row.parent, f).t \notin {"undefined", "null"}
    IN  IF row.kind = "either"
        THEN \E j \in 1..Len(row.conds) : there(row.conds[j][1])
        ELSE there(name)

\* C24 (as stated): whatever fields of a statistics record are absent, null
\* or of an unexpected type, the formatter of the layer does not throw, and
\* the rows in the panel are rows of fields that are present.
C24_FormattersNeverThrow ==
    (StatisticsShown /\ hasKeys(probe.layer, probe.data)) =>
        /\ ~displayStatistics(probe.layer, probe.data).threw
        /\ probe.panel.message # "Error loading data"
        /\ \A i \in 1..Len(probe.panel.rows) :
               rowPresent(probe.layer, probe.data, probe.panel.rows[i])

\* the wetland panel shows the area row of the change-over-time record
ChangeRowShown ==
    /\ StatisticsShown
    /\ probe.layer = "wetland"
    /\ \E i \in 1..Len(probe.panel.rows) :
           probe.panel.rows[i] = "change_over_time.wetland_area_ha"

startArea == probe.data[First("change_over_time.wetland_area_ha")].n

endArea == probe.data[Second("change_over_time.wetland_area_ha")].n

\* the percent text is (e - s) / s * 100 to the nearest tenth, s > 0
PercentRounded ==
    LET diff == IF endArea < startArea THEN startArea - endArea ELSE endArea - startArea
        off == 1000 * diff - probe.panel.change.percent.scaled * startArea
    IN  /\ probe.panel.change.percent.special = ""
        /\ 2 * (IF off < 0 THEN -off ELSE off) <= startArea
        /\ probe.panel.change.percent.sign = (IF endArea < startArea THEN "-" ELSE "")

\* the area change text has the digits of |e - s| to two decimals
ChangeDigits ==
    /\ probe.panel.change.change.special = ""
    /\ probe.panel.change.change.scaled =
           100 * (IF endArea < startArea THEN startArea - endArea ELSE endArea - startArea)

\* C25 (as stated): the percent of a wetland change-over-time record is
\* (e - s) / s * 100 rounded to one decimal, and the area change is e - s
\* with an explicit sign, '+' for an increase.
C25_ChangeWithExplicitSign ==
    ChangeRowShown =>
        /\ startArea > 0 => PercentRounded
        /\ ChangeDigits
        /\ endArea > startArea => probe.panel.change.change.sign = "+"
        /\ endArea < startArea => probe.panel.change.change.sign = "-"

\* C25 (amended): the percent is (e - s) / s * 100 rounded to one decimal
\* for s > 0, and Infinity or NaN for s = 0; the area change is e - s to two
\* decimals with '-' for a decrease and no sign otherwise.
C25_ChangeText ==
    ChangeRowShown =>
        /\ startArea > 0 => PercentRounded
        /\ startArea = 0 =>
               probe.panel.change.percent.special =
                   (IF endArea = 0 THEN "NaN" ELSE "Infinity")
        /\ ChangeDigits
        /\ probe.panel.change.change.sign = (IF endArea < startArea THEN "-" ELSE "")

\* an increase from an area above one hectare is shown
C25_Witness == ChangeRowShown /\ startArea > 1 /\ endArea > startArea

(* ---------------------------------------------------------------------- *)
(* ROI, overlays, legend and panels across overlapping requests            *)
(* ---------------------------------------------------------------------- *)
\* C31: if the ROI is marked established then the ROI slot holds a shape.
C31_EstablishedImpliesShape == roiSetup => currentPolygon # NoShape

\* C32: if the ROI is marked established then forest is marked analyzed.
C32_EstablishedImpliesForestAnalyzed == roiSetup => layersAnalyzed["forest"]

\* C32 witness: a forced re-analysis of forest has failed, with the ROI
\* established; forest is still marked analyzed.
C32_Witness ==
    /\ lastEvent = Event("reanalyzeFailure", "forest")
    /\ roiSetup
    /\ layersAnalyzed["forest"]

\* the steps that complete a call after its loadLayerData
CompletionOps == {"setupDone", "analyzeDone", "reanalyzeDone"}

\* C33: the step that completes call c and shows c's layer does not attach
\* the overlay that was cached for the layer before c's analysis succeeded.
C33_CompletionStep ==
    \A c \in InFlight :
        (/\ c.stage = "load"
         /\ calls' = RemoveCall(c)
         /\ lastEvent'.op \in CompletionOps
         /\ lastEvent'.layer = c.layer
         /\ c.kind = "setup" \/ checked[c.layer]
         /\ c.old # NoOverlay) =>
            <<c.layer, c.old>> \notin mapLayers'

\* C33: every step satisfies the statement above.
C33_OverlayBuiltAfterAnalysis == [][C33_CompletionStep]_vars

\* C34: when the legend panel is visible it shows the legend of the current
\* active layer.
C34_LegendOfActiveLayer == mapLegend # "hidden" => mapLegend = currentActiveLayer

\* the statistics panels marked active
ActivePanels == {l \in Layers : statsActive[l]}

\* C35: at most one statistics panel is marked active.
C35_AtMostOneActivePanel == Cardinality(ActivePanels) <= 1

\* C35 witness: wetland's analysis has completed while forest was shown;
\* wetland's panel is the active one, forest's is not.
C35_Witness ==
    /\ lastEvent = Event("analyzeDone", "wetland")
    /\ layersAnalyzed["forest"] /\ checked["forest"] /\ Attached("forest") # {}
    /\ ActivePanels = {"wetland"}

\* the statistics requests for layer l among the requests reqs
StatisticsRequests(reqs, l) ==
    Len(SelectSeq(reqs, LAMBDA r : r = Request("statistics", l)))

\* C37: the step that completes a successful analysis of l, with l's toggle
\* checked and an overlay of l loaded, issues one statistics request for l.
C37_CompletionStep ==
    \A l \in Layers :
        (lastEvent' \in DoneEvents(l) /\ checked'[l] /\ layersAnalyzed'[l]
            /\ analysisLayers'[l] # NoOverlay) =>
            StatisticsRequests(emitted', l) = 1

\* C37: every step satisfies the statement above.
C37_OneStatisticsRequest == [][C37_CompletionStep]_vars

\* C36: with every request answered, a layer item marked 'analyzing' is
\* eventually not marked 'analyzing'.
C36_AnalyzingEnds ==
    \A l \in Layers : itemAnalyzing[l] ~> ~itemAnalyzing[l]

\* C36 witness: of two requests for forest in flight at once, one has been
\* answered and has taken the mark off forest's item; the other is pending.
C36_Witness ==
    /\ lastEvent \in FailureEvents("forest") \cup DoneEvents("forest")
    /\ AnalysisInFlight("forest")
    /\ ~itemAnalyzing["forest"]

\* a response step is a step that resumes a suspended call, and one can be
\* taken whenever a call is suspended
ResponseOps ==
    {"setupSuccess", "setupFailure", "analyzeSuccess", "analyzeFailure", "reanalyzeSuccess",
     "reanalyzeFailure", "mapUrl", "legend"} \cup CompletionOps

ResumedIsResponse == [][Resumed <=> lastEvent'.op \in ResponseOps]_vars

====
